---- MODULE Spec2Model ----
(***************************************************************************)
(* State-machine model of src/src/eth-lib-adapters/EthersAdapter.ts:       *)
(* the EthersAdapter and the EthersContractAdapter (the Contract Handle).  *)
(* Every asynchronous method is split at its awaits: a Start action runs   *)
(* the code up to the first provider/signer request, and one action per    *)
(* await resumes it with the response the provider or signer gives.        *)
(***************************************************************************)
EXTENDS Integers, Sequences, FiniteSets, TLC

(* ---------------------------- bounds ----------------------------------- *)
MaxInv == 2          \* invocations that may be in flight at once
NumAddr == 2         \* distinct 20-byte addresses
MaxPayloadLen == 2   \* hex digits of a return / revert payload after "0x"
MaxProps == 2        \* own properties of an error's data mapping
MaxOutputs == 2      \* largest number of declared return values in the Abi
MaxGas == 1          \* largest gas number

(* ------------------------- JavaScript values --------------------------- *)
\* Values carried in option bags and transaction objects.
JSUndef == [t |-> "undefined", n |-> 0, c |-> ""]
Num(k) == [t |-> "number", n |-> k, c |-> ""]
HexData(k) == [t |-> "hex", n |-> k, c |-> ""]
\* An address is its 20 bytes (n) and the letter case it is written in (c).
Addr(h, c) == [t |-> "address", n |-> h, c |-> c]

Casings == {"lower", "upper", "checksum", "badmix"}
Addresses == {Addr(h, c) : h \in 1..NumAddr, c \in Casings}
ChecksumAddresses == {Addr(h, "checksum") : h \in 1..NumAddr}
Invalid == [t |-> "invalid", n |-> 0, c |-> ""]

\* ethers.utils.getAddress: the checksum form of a 20-byte hex string written
\* in lower case, upper case or correct checksum case; it throws (Invalid) on a
\* mixed-case string with a wrong checksum and on anything that is no address.
GetAddress(v) ==
  IF v.t = "address" /\ v.c \in {"lower", "upper", "checksum"}
  THEN Addr(v.n, "checksum")
  ELSE Invalid

(* ------------------------------ bags ----------------------------------- *)
\* An options bag / transaction object: a function from its own keys to values.
EmptyBag == [k \in {} |-> JSUndef]
Get(b, k) == IF k \in DOMAIN b THEN b[k] ELSE JSUndef
\* { ...a, ...b }
Merge(a, b) == [k \in (DOMAIN a) \cup (DOMAIN b) |-> IF k \in DOMAIN b THEN b[k] ELSE a[k]]
\* const { keys, ...rest } = b
Without(b, keys) == [k \in (DOMAIN b) \ keys |-> b[k]]
One(k, v) == [x \in {k} |-> v]

\* normalizeGasLimit of ../utils/transactions: one canonical gas key, every
\* other key passed through, no gas key when none is given.
NormalizeGasLimit(o) ==
  LET rest == Without(o, {"gas", "gasLimit"}) IN
  IF "gas" \in DOMAIN o THEN Merge(rest, One("gas", o["gas"]))
  ELSE IF "gasLimit" \in DOMAIN o THEN Merge(rest, One("gas", o["gasLimit"]))
  ELSE rest

\* formatCallTx of ../utils/transactions: the eth_call wire object, without
\* the fields whose value is undefined.
FormatCallTx(tx) ==
  LET n == NormalizeGasLimit(tx) IN
  [k \in {x \in DOMAIN n : n[x] # JSUndef} |-> n[k]]

(* ----------------------------- strings --------------------------------- *)
\* A string is the sequence of its characters.
StartsWith(s, p) == Len(s) >= Len(p) /\ SubSeq(s, 1, Len(p)) = p
\* s.slice(n)
Slice(s, n) == SubSeq(s, n + 1, Len(s))
RevertedPrefix == <<"R", "e", "v", "e", "r", "t", "e", "d", " ", "0", "x">>
HexPrefix == <<"0", "x">>
UndefinedKey == <<"u", "n", "d", "e", "f", "i", "n", "e", "d">>

HexDigits == {"0", "8"}
RECURSIVE DigitSeqs(_)
DigitSeqs(n) ==
  IF n = 0 THEN {<<>>}
  ELSE DigitSeqs(n - 1) \cup {Append(s, d) : s \in {x \in DigitSeqs(n - 1) : Len(x) = n - 1}, d \in HexDigits}
\* 0x-prefixed hex strings: return data and revert payloads.
Payloads == {HexPrefix \o s : s \in DigitSeqs(MaxPayloadLen)}

(* ------------------------- thrown errors ------------------------------- *)
\* The data field of an error thrown by the provider: absent, a string, or a
\* mapping given as its own properties in property order.
DUndef == [t |-> "undefined", s |-> <<>>, props |-> <<>>]
DStr(s) == [t |-> "string", s |-> s, props |-> <<>>]
DObj(props) == [t |-> "object", s |-> <<>>, props |-> props]
\* A property value of the mapping: undefined, a string, or an object that
\* has or lacks a return field.
PUndef == [t |-> "undefined", hasReturn |-> FALSE, ret |-> <<>>]
PStr == [t |-> "string", hasReturn |-> FALSE, ret |-> <<>>]
PObj == [t |-> "object", hasReturn |-> FALSE, ret |-> <<>>]
PRet(p) == [t |-> "object", hasReturn |-> TRUE, ret |-> p]
Prop(k, v) == [key |-> k, val |-> v]

Err(name, data) == [name |-> name, data |-> data]
NoErr == Err("", DUndef)
TypeErr == Err("TypeError", DUndef)
ProviderErr(d) == Err("ProviderError", d)

(* --------------------------- results ----------------------------------- *)
Val(tag, hex, vals, bag, n) == [tag |-> tag, hex |-> hex, vals |-> vals, bag |-> bag, n |-> n]
VNone == Val("none", <<>>, <<>>, EmptyBag, 0)
VVoid == Val("void", <<>>, <<>>, EmptyBag, 0)
VUndef == Val("undefined", <<>>, <<>>, EmptyBag, 0)
VStr(s) == Val("string", s, <<>>, EmptyBag, 0)
VBare(v) == Val("bare", <<>>, <<v>>, EmptyBag, 0)
VSeq(vs) == Val("seq", <<>>, vs, EmptyBag, 0)
VTx(h) == Val("tx", <<>>, <<>>, EmptyBag, h)
VNum(k) == Val("number", <<>>, <<>>, EmptyBag, k)
VBag(b) == Val("bag", <<>>, <<>>, b, 0)

Pending == [kind |-> "none", val |-> VNone, err |-> NoErr]
Returned(v) == [kind |-> "return", val |-> v, err |-> NoErr]
Thrown(e) == [kind |-> "throw", val |-> VNone, err |-> e]

(* ------------------- requests and their responses ---------------------- *)
Req(kind, tx, block, method, params, withOptions) ==
  [kind |-> kind, tx |-> tx, block |-> block, method |-> method,
   params |-> params, withOptions |-> withOptions]
Resp(ok, hex, acct, hash, n, safe, err) ==
  [ok |-> ok, hex |-> hex, acct |-> acct, hash |-> hash, n |-> n, safe |-> safe, err |-> err]
RespFail(e) == Resp(FALSE, <<>>, JSUndef, 0, 0, TRUE, e)
RespHex(p) == Resp(TRUE, p, JSUndef, 0, 0, TRUE, NoErr)
RespAcct(a) == Resp(TRUE, <<>>, a, 0, 0, TRUE, NoErr)
RespHash(h) == Resp(TRUE, <<>>, JSUndef, h, 0, TRUE, NoErr)
RespGas(k, safe) == Resp(TRUE, <<>>, JSUndef, 0, k, safe, NoErr)

(* ------------------------------ state ---------------------------------- *)
VARIABLES adapter,   \* the EthersAdapter's fields: ethers, signer
          handle,    \* the EthersContractAdapter's fields: contract, ethersAdapter
          inv        \* the invocations in flight, one record per caller slot
vars == <<adapter, handle, inv>>

\* What the constructor is given. The signer resolves to one checksummed account.
Signer(present, account) == [present |-> present, account |-> account]
Config(ethers, signer) == [ethers |-> ethers, signer |-> signer]
Configs ==
  {Config(e, Signer(p, a)) : e \in {"", "ethers"}, p \in BOOLEAN, a \in ChecksumAddresses}

\* constructor({ ethers, signer }): throws when either is missing.
Constructor(cfg) ==
  IF cfg.ethers = "" THEN [ok |-> FALSE, ethers |-> "", signer |-> cfg.signer]
  ELSE IF ~cfg.signer.present THEN [ok |-> FALSE, ethers |-> "", signer |-> cfg.signer]
  ELSE [ok |-> TRUE, ethers |-> cfg.ethers, signer |-> cfg.signer]

\* The Abi: method m declares m return values; any other name is absent.
Abi == [m \in 0..MaxOutputs |-> m]
MissingMethod == MaxOutputs + 1
ZeroAddress == Addr(0, "checksum")

\* getContract(abi, address?)
GetContract(abi, hasAddress, address) ==
  [contract |-> [address |-> IF hasAddress THEN address ELSE ZeroAddress, abi |-> abi],
   ethersAdapter |-> "this"]

NewInv(op) ==
  [op |-> op, pc |-> "idle", method |-> 0, params |-> 0, hasOptions |-> FALSE,
   options |-> EmptyBag, block |-> "", from |-> JSUndef, owner |-> JSUndef,
   sendTx |-> EmptyBag, expectedFrom |-> JSUndef, checked |-> Pending,
   reqs |-> <<>>, resps |-> <<>>, result |-> Pending]

Init ==
  /\ \E cfg \in Configs :
       /\ Constructor(cfg).ok
       /\ adapter = [ethers |-> Constructor(cfg).ethers, signer |-> Constructor(cfg).signer]
  /\ \E hasAddress \in BOOLEAN : handle = GetContract(Abi, hasAddress, Addr(1, "checksum"))
  /\ inv = [i \in 1..MaxInv |-> NewInv("none")]

(* ----------------------- steps of an invocation ------------------------ *)
\* A request goes out to the provider or signer and the invocation awaits it.
Issue(s, req, pc) == [s EXCEPT !.reqs = Append(@, req), !.pc = pc]
\* The awaited response arrives.
Received(s, r) == [s EXCEPT !.resps = Append(@, r)]
Finish(s, result) == [s EXCEPT !.pc = "done", !.result = result]
\* Mutant of Propagate: a failed request is issued a second time.
PropagateRetry(s, e) == [s EXCEPT !.reqs = Append(@, @[Len(@)])]

\* A rejected await outside any try block rejects the method's own promise.
Propagate(s, e) == Finish(s, Thrown(e))

\* Mutant of Bindings: a method rebinds the adapter's signer.
BindingsRebound ==
  /\ adapter' = [adapter EXCEPT !.signer = Signer(TRUE, Addr(NumAddr + 1, "checksum"))]
  /\ handle' = handle

\* No method assigns this.ethers, this.signer, this.contract or this.ethersAdapter.
Bindings == UNCHANGED <<adapter, handle>>

\* contract.interface.functions[methodName].encode(params)
Encode(m, p) == HexData(10 * m + p)

\* contract.interface.functions[methodName].decode(resHex): one value per
\* declared output, read off the data one hex digit each; throws on short data.
Decode(m, hex) ==
  LET digits == Slice(hex, 2) IN
  IF Len(digits) < Abi[m] THEN [ok |-> FALSE, rets |-> <<>>]
  ELSE [ok |-> TRUE, rets |-> SubSeq(digits, 1, Abi[m])]

\* ethCall(tx, block): providerSend('eth_call', [formatCallTx(tx), block])
EthCallRequest(tx, block) == Req("eth_call", FormatCallTx(tx), block, 0, 0, FALSE)

\* Mutant of CallTx: the caller's options are spread last.
CallTxOptionsLast(options, to, data) ==
  Merge(Merge(One("to", to), One("data", data)), options)

\* { ...options, to: this.address, data }
CallTx(options, to, data) == Merge(options, Merge(One("to", to), One("data", data)))

\* Mutant of Unwrap: the decoded sequence is returned as it is.
UnwrapNever(rets) == VSeq(rets)

\* if (rets.length === 1) return rets[0]; return rets;
Unwrap(rets) == IF Len(rets) = 1 THEN VBare(rets[1]) ELSE VSeq(rets)

\* { gasLimit: gas, ...rest }
Overrides(gas, rest) == Merge(One("gasLimit", gas), rest)

\* Mutant of CheckVerdict: from is compared without checksum normalization.
CheckVerdictRaw(from, r) ==
  IF ~r.ok THEN r.err
  ELSE IF from # r.acct THEN Err("AddressMismatch", DUndef)
  ELSE NoErr

\* checkFromAddress after getAccount() has answered: the error it throws, if any.
CheckVerdict(from, r) ==
  IF ~r.ok THEN r.err
  ELSE IF GetAddress(from) = Invalid THEN Err("InvalidAddress", DUndef)
  ELSE IF GetAddress(from) # r.acct THEN Err("AddressMismatch", DUndef)
  ELSE NoErr

\* checkFromAddress up to its await: getAccount() asks the signer for its address.
CheckFromAddressBegin(s) ==
  Issue(s, Req("signer.getAddress", EmptyBag, "", 0, 0, FALSE), "await_account")

\* checkFromAddress resumed by the signer's answer: it compares and its own
\* promise settles (checked). A method awaiting that promise runs on only in
\* a later turn.
CheckFromAddressSettle(s, r) ==
  [Received(s, r) EXCEPT !.expectedFrom = r.acct,
                         !.checked = IF CheckVerdict(s.from, r) # NoErr
                                     THEN Thrown(CheckVerdict(s.from, r))
                                     ELSE Returned(VVoid)]

(* --------------------- revert-data extraction -------------------------- *)
DecimalDigit == <<"0", "1", "2", "3", "4", "5", "6", "7", "8", "9">>
RECURSIVE Decimal(_)
Decimal(n) ==
  IF n < 10 THEN <<DecimalDigit[n + 1]>>
  ELSE Decimal(n \div 10) \o <<DecimalDigit[(n % 10) + 1]>>

\* Object.getOwnPropertyNames(e.data) for a string or a mapping.
OwnPropertyNames(d) ==
  IF d.t = "string"
  THEN [k \in 1..(Len(d.s) + 1) |->
          IF k <= Len(d.s) THEN Decimal(k - 1) ELSE <<"l", "e", "n", "g", "t", "h">>]
  ELSE [k \in 1..Len(d.props) |-> d.props[k].key]

IsHexKey(k) == StartsWith(k, HexPrefix)

\* e.data[key]
Lookup(d, key) ==
  IF d.t = "string"
  THEN IF \E k \in 1..(Len(d.s) + 1) : OwnPropertyNames(d)[k] = key THEN PStr ELSE PUndef
  ELSE IF \E k \in 1..Len(d.props) : d.props[k].key = key
       THEN d.props[CHOOSE k \in 1..Len(d.props) : d.props[k].key = key].val
       ELSE PUndef

\* Mutant of RevertedSliceAt: the whole tested prefix is dropped.
RevertedSliceAtPrefix == Len(RevertedPrefix)

\* The characters e.data.slice(...) drops in the OpenEthereum branch.
RevertedSliceAt == 9

\* The catch block of getCallRevertData.
RevertFromError(e) ==
  LET d == e.data IN
  IF d.t = "string" /\ StartsWith(d.s, RevertedPrefix)
  THEN Returned(VStr(Slice(d.s, RevertedSliceAt)))
  ELSE IF d.t = "undefined" THEN Thrown(TypeErr)
  ELSE LET hits == SelectSeq(OwnPropertyNames(d), IsHexKey)
           txHash == IF Len(hits) > 0 THEN hits[1] ELSE UndefinedKey
           v == Lookup(d, txHash)
       IN IF v.t = "undefined" THEN Thrown(TypeErr)
          ELSE IF v.hasReturn THEN Returned(VStr(v.ret))
          ELSE Returned(VUndef)

(* ------------------ the methods, cut at their awaits ------------------- *)
\* call: encode, then ethCall({...options, to, data}, 'latest').
CallBegin(s) ==
  IF s.method \notin DOMAIN handle.contract.abi THEN Finish(s, Thrown(TypeErr))
  ELSE Issue(s, EthCallRequest(CallTx(s.options, handle.contract.address,
                                      Encode(s.method, s.params)), "latest"),
             "await_call")

\* call after the eth_call: decode and unwrap.
CallEnd(s, r) ==
  IF ~r.ok THEN Propagate(Received(s, r), r.err)
  ELSE IF ~Decode(s.method, r.hex).ok
       THEN Finish(Received(s, r), Thrown(Err("DecodingError", DUndef)))
       ELSE Finish(Received(s, r), Returned(Unwrap(Decode(s.method, r.hex).rets)))

\* this.contract.functions[methodName](...params, overrides?)
ContractSend(s) ==
  IF s.method \notin DOMAIN handle.contract.abi THEN Finish(s, Thrown(TypeErr))
  ELSE Issue(s, Req("contract.functions", s.sendTx, "", s.method, s.params, s.hasOptions),
             "await_submit")

\* send up to its first await.
SendBegin(s) ==
  IF s.hasOptions
  THEN LET norm == NormalizeGasLimit(s.options) IN
       CheckFromAddressBegin([s EXCEPT !.from = Get(norm, "from"),
                                       !.sendTx = Overrides(Get(norm, "gas"),
                                                            Without(norm, {"from", "gas"}))])
  ELSE ContractSend(s)

\* The checkFromAddress that send awaits settles; send itself has not resumed.
SendChecked(s, r) == [CheckFromAddressSettle(s, r) EXCEPT !.pc = "await_check"]

\* Mutant of SendSubmit: the outcome of checkFromAddress is not awaited.
SendSubmitUnchecked(s) == ContractSend(s)

\* send resumed after await checkFromAddress: it rethrows or submits.
SendSubmit(s) ==
  IF s.checked.kind = "throw" THEN Propagate(s, s.checked.err)
  ELSE ContractSend(s)

\* { transactionResponse, hash: transactionResponse.hash }
SubmitEnd(s, r) ==
  IF ~r.ok THEN Propagate(Received(s, r), r.err)
  ELSE Finish(Received(s, r), Returned(VTx(r.hash)))

\* Mutant of EstimateOverrides: from is destructured away as in send.
EstimateOverridesNoFrom(options) ==
  LET norm == NormalizeGasLimit(options) IN
  Overrides(Get(norm, "gas"), Without(norm, {"from", "gas"}))

\* The options object estimateGas hands to contract.estimate[methodName].
EstimateOverrides(options) ==
  LET norm == NormalizeGasLimit(options) IN
  Overrides(Get(norm, "gas"), Without(norm, {"gas"}))

\* estimateGas up to its await.
EstimateGasBegin(s) ==
  IF s.method \notin DOMAIN handle.contract.abi THEN Finish(s, Thrown(TypeErr))
  ELSE IF ~s.hasOptions
       THEN Issue(s, Req("contract.estimate", EmptyBag, "", s.method, s.params, FALSE),
                  "await_estimate")
       ELSE Issue(s, Req("contract.estimate", EstimateOverrides(s.options), "",
                         s.method, s.params, TRUE),
                  "await_estimate")

\* (await ...).toNumber(): throws on a number beyond the safe integer range.
EstimateGasEnd(s, r) ==
  IF ~r.ok THEN Propagate(Received(s, r), r.err)
  ELSE IF ~r.safe THEN Finish(Received(s, r), Thrown(Err("NumericFault", DUndef)))
  ELSE Finish(Received(s, r), Returned(VNum(r.n)))

\* ethCall and getCallRevertData up to the eth_call request.
EthCallBegin(s) == Issue(s, EthCallRequest(s.options, s.block), "await_call")

EthCallEnd(s, r) ==
  IF ~r.ok THEN Propagate(Received(s, r), r.err)
  ELSE Finish(Received(s, r), Returned(VStr(r.hex)))

\* getCallRevertData after the eth_call: the try result or the catch block.
GetCallRevertDataEnd(s, r) ==
  IF r.ok THEN Finish(Received(s, r), Returned(VStr(r.hex)))
  ELSE Finish(Received(s, r), RevertFromError(r.err))

\* checkFromAddress after getAccount().
CheckFromAddressEnd(s, r) ==
  Finish(CheckFromAddressSettle(s, r), CheckFromAddressSettle(s, r).checked)

\* ethSendTransaction up to its first await.
EthSendTransactionBegin(s) ==
  LET norm == NormalizeGasLimit(s.options) IN
  CheckFromAddressBegin([s EXCEPT !.from = Get(norm, "from"),
                                  !.sendTx = Overrides(Get(norm, "gas"),
                                                       Without(norm, {"from", "gas"}))])

\* The checkFromAddress that ethSendTransaction awaits settles;
\* ethSendTransaction itself has not resumed.
EthSendTransactionChecked(s, r) ==
  [CheckFromAddressSettle(s, r) EXCEPT !.pc = "await_check"]

\* ethSendTransaction resumed after await checkFromAddress: it rethrows or
\* calls signer.sendTransaction.
EthSendTransactionSubmit(s) ==
  IF s.checked.kind = "throw" THEN Propagate(s, s.checked.err)
  ELSE Issue(s, Req("signer.sendTransaction", s.sendTx, "", 0, 0, FALSE), "await_submit")

\* Mutant of SendOptions: ownerAccount is spread last and always wins.
SendOptionsOwnerWins(ownerAccount, options) == Merge(options, One("from", ownerAccount))

\* getSendOptions: { from: ownerAccount, ...options }
SendOptions(ownerAccount, options) == Merge(One("from", ownerAccount), options)

(* --------------------------- input domains ----------------------------- *)
\* rich = TRUE: the full domains, explored with one invocation at a time;
\* rich = FALSE: a few representative inputs, explored under every interleaving.
OptArgs(bags) ==
  {[has |-> FALSE, bag |-> EmptyBag]} \cup {[has |-> TRUE, bag |-> b] : b \in bags}

FromOpts(rich) ==
  IF rich THEN {EmptyBag} \cup {One("from", a) : a \in Addresses \cup {JSUndef}}
  ELSE {One("from", Addr(1, "lower")), One("from", Addr(2, "checksum"))}
GasOpts(rich) ==
  IF rich
  THEN {EmptyBag} \cup {One("gas", Num(g)) : g \in 0..MaxGas}
                  \cup {One("gasLimit", Num(g)) : g \in 0..MaxGas}
  ELSE {One("gasLimit", Num(1))}
ValueOpts(rich) == IF rich THEN {EmptyBag, One("value", Num(7))} ELSE {EmptyBag}
ToOpts(rich) == IF rich THEN {EmptyBag, One("to", Addr(2, "checksum"))} ELSE {One("to", Addr(2, "checksum"))}
DataOpts(rich) == IF rich THEN {EmptyBag, One("data", HexData(99))} ELSE {One("data", HexData(99))}

SendBags(rich) ==
  {Merge(Merge(f, g), v) : f \in FromOpts(rich), g \in GasOpts(rich), v \in ValueOpts(rich)}
TxBags(rich) ==
  {Merge(Merge(b, t), d) : b \in SendBags(rich), t \in ToOpts(rich), d \in DataOpts(rich)}
CallBags(rich) ==
  IF rich
  THEN {Merge(Merge(Merge(f, g), t), d) :
          f \in {EmptyBag, One("from", Addr(1, "lower")), One("from", JSUndef)},
          g \in {EmptyBag, One("gas", Num(1)), One("gasLimit", Num(1))},
          t \in ToOpts(rich), d \in DataOpts(rich)}
  ELSE {Merge(One("to", Addr(2, "checksum")), One("data", HexData(99)))}
CallTxs(rich) ==
  IF rich
  THEN {Merge(Merge(t, d), g) : t \in ToOpts(rich), d \in DataOpts(rich),
                                g \in {EmptyBag, One("gasLimit", Num(1)), One("value", JSUndef)}}
  ELSE {One("to", Addr(2, "checksum"))}
Blocks(rich) == IF rich THEN {"latest", "0x1"} ELSE {"latest"}
Methods(rich) == IF rich THEN 0..MissingMethod ELSE {1}
ParamsArgs(rich) == IF rich THEN {0, 1} ELSE {0}
FromArgs(rich) ==
  IF rich THEN Addresses \cup {JSUndef} ELSE {Addr(1, "lower"), Addr(2, "checksum")}
Owners(rich) == IF rich THEN ChecksumAddresses ELSE {Addr(1, "checksum")}

\* Strings an error's data may be.
ErrStrings ==
  {SubSeq(RevertedPrefix, 1, 9) \o p : p \in Payloads} \cup Payloads
     \cup {<<>>, SubSeq(RevertedPrefix, 1, 8)}
PropKeys == {<<"0", "x", "a">>, <<"0", "x", "b">>, <<"s">>, UndefinedKey}
PropVals == {PUndef, PStr, PObj} \cup {PRet(p) : p \in {x \in Payloads : Len(x) <= 3}}
RECURSIVE PropSeqs(_)
PropSeqs(n) ==
  IF n = 0 THEN {<<>>}
  ELSE PropSeqs(n - 1) \cup
       {Append(s, Prop(k, v)) :
          s \in {x \in PropSeqs(n - 1) : Len(x) = n - 1}, k \in PropKeys, v \in PropVals}
DistinctKeys(ps) == \A a, b \in 1..Len(ps) : ps[a].key = ps[b].key => a = b
ErrDatas(rich) ==
  IF rich
  THEN {DUndef} \cup {DStr(s) : s \in ErrStrings}
                \cup {DObj(ps) : ps \in {x \in PropSeqs(MaxProps) : DistinctKeys(x)}}
  ELSE {DUndef, DObj(<<Prop(<<"0", "x", "a">>, PRet(HexPrefix))>>)}
PlainErrs(rich) ==
  IF rich THEN {ProviderErr(DUndef), ProviderErr(DStr(HexPrefix))} ELSE {ProviderErr(DUndef)}

CallResponses(rich) ==
  {RespHex(p) : p \in IF rich THEN Payloads ELSE {HexPrefix \o <<"8">>}}
     \cup {RespFail(e) : e \in PlainErrs(rich)}
RevertResponses(rich) ==
  {RespHex(p) : p \in IF rich THEN Payloads ELSE {HexPrefix \o <<"8">>}}
     \cup {RespFail(ProviderErr(d)) : d \in ErrDatas(rich)}
\* signer.getAddress(): the signer's account, or a failure of the signer.
AccountResponses(rich) ==
  {RespAcct(adapter.signer.account)} \cup (IF rich THEN {RespFail(e) : e \in PlainErrs(rich)} ELSE {})
SubmitResponses(rich) == {RespHash(1)} \cup {RespFail(e) : e \in PlainErrs(rich)}
EstimateResponses(rich) ==
  (IF rich THEN {RespGas(g, safe) : g \in 0..MaxGas, safe \in BOOLEAN} ELSE {RespGas(1, TRUE)})
     \cup {RespFail(e) : e \in PlainErrs(rich)}

(* ------------------------------ actions -------------------------------- *)
Started(op, m, p, hasOptions, options, block, from, owner) ==
  [NewInv(op) EXCEPT !.method = m, !.params = p, !.hasOptions = hasOptions,
                     !.options = options, !.block = block, !.from = from,
                     !.owner = owner]

Step(i, s) == inv' = [inv EXCEPT ![i] = s] /\ Bindings
Idle(i) == inv[i].pc = "idle"
Awaiting(i, op, pc) == inv[i].op = op /\ inv[i].pc = pc

CallStart(i, rich) ==
  /\ Idle(i)
  /\ \E m \in Methods(rich), p \in ParamsArgs(rich), o \in OptArgs(CallBags(rich)) :
       Step(i, CallBegin(Started("call", m, p, o.has, o.bag, "", JSUndef, JSUndef)))
CallResume(i, rich) ==
  /\ Awaiting(i, "call", "await_call")
  /\ \E r \in CallResponses(rich) : Step(i, CallEnd(inv[i], r))

SendStart(i, rich) ==
  /\ Idle(i)
  /\ \E m \in Methods(rich), o \in OptArgs(SendBags(rich)) :
       Step(i, SendBegin(Started("send", m, 0, o.has, o.bag, "", JSUndef, JSUndef)))
SendCheckedStep(i, rich) ==
  /\ Awaiting(i, "send", "await_account")
  /\ \E r \in AccountResponses(rich) : Step(i, SendChecked(inv[i], r))
SendSubmitStep(i) ==
  /\ Awaiting(i, "send", "await_check")
  /\ Step(i, SendSubmit(inv[i]))
SendResume(i, rich) ==
  /\ Awaiting(i, "send", "await_submit")
  /\ \E r \in SubmitResponses(rich) : Step(i, SubmitEnd(inv[i], r))

EstimateGasStart(i, rich) ==
  /\ Idle(i)
  /\ \E m \in Methods(rich), o \in OptArgs(SendBags(rich)) :
       Step(i, EstimateGasBegin(Started("estimateGas", m, 0, o.has, o.bag, "", JSUndef, JSUndef)))
EstimateGasResume(i, rich) ==
  /\ Awaiting(i, "estimateGas", "await_estimate")
  /\ \E r \in EstimateResponses(rich) : Step(i, EstimateGasEnd(inv[i], r))

EthCallStart(i, rich) ==
  /\ Idle(i)
  /\ \E tx \in CallTxs(rich), b \in Blocks(rich) :
       Step(i, EthCallBegin(Started("ethCall", 0, 0, TRUE, tx, b, JSUndef, JSUndef)))
EthCallResume(i, rich) ==
  /\ Awaiting(i, "ethCall", "await_call")
  /\ \E r \in CallResponses(rich) : Step(i, EthCallEnd(inv[i], r))

GetCallRevertDataStart(i, rich) ==
  /\ Idle(i)
  /\ \E tx \in CallTxs(FALSE), b \in Blocks(rich) :
       Step(i, EthCallBegin(Started("getCallRevertData", 0, 0, TRUE, tx, b, JSUndef, JSUndef)))
GetCallRevertDataResume(i, rich) ==
  /\ Awaiting(i, "getCallRevertData", "await_call")
  /\ \E r \in RevertResponses(rich) : Step(i, GetCallRevertDataEnd(inv[i], r))

CheckFromAddressStart(i, rich) ==
  /\ Idle(i)
  /\ \E from \in FromArgs(rich) :
       Step(i, CheckFromAddressBegin(Started("checkFromAddress", 0, 0, FALSE, EmptyBag, "", from, JSUndef)))
CheckFromAddressResume(i, rich) ==
  /\ Awaiting(i, "checkFromAddress", "await_account")
  /\ \E r \in AccountResponses(rich) : Step(i, CheckFromAddressEnd(inv[i], r))

EthSendTransactionStart(i, rich) ==
  /\ Idle(i)
  /\ \E tx \in TxBags(rich) :
       Step(i, EthSendTransactionBegin(Started("ethSendTransaction", 0, 0, TRUE, tx, "", JSUndef, JSUndef)))
EthSendTransactionCheckedStep(i, rich) ==
  /\ Awaiting(i, "ethSendTransaction", "await_account")
  /\ \E r \in AccountResponses(rich) : Step(i, EthSendTransactionChecked(inv[i], r))
EthSendTransactionSubmitStep(i) ==
  /\ Awaiting(i, "ethSendTransaction", "await_check")
  /\ Step(i, EthSendTransactionSubmit(inv[i]))
EthSendTransactionResume(i, rich) ==
  /\ Awaiting(i, "ethSendTransaction", "await_submit")
  /\ \E r \in SubmitResponses(rich) : Step(i, SubmitEnd(inv[i], r))

GetSendOptions(i, rich) ==
  /\ Idle(i)
  /\ \E owner \in Owners(rich), o \in OptArgs(SendBags(rich)) :
       Step(i, Finish(Started("getSendOptions", 0, 0, o.has, o.bag, "", JSUndef, owner),
                      Returned(VBag(SendOptions(owner, o.bag)))))

\* The caller takes the settled promise; its slot is free for the next invocation.
Settle(i) == inv[i].pc = "done" /\ Step(i, NewInv("none"))

(* -------------------------- specifications ----------------------------- *)
NextOver(I, rich) ==
  \E i \in I :
    \/ CallStart(i, rich)
    \/ CallResume(i, rich)
    \/ SendStart(i, rich)
    \/ SendCheckedStep(i, rich)
    \/ SendSubmitStep(i)
    \/ SendResume(i, rich)
    \/ EstimateGasStart(i, rich)
    \/ EstimateGasResume(i, rich)
    \/ EthCallStart(i, rich)
    \/ EthCallResume(i, rich)
    \/ GetCallRevertDataStart(i, rich)
    \/ GetCallRevertDataResume(i, rich)
    \/ CheckFromAddressStart(i, rich)
    \/ CheckFromAddressResume(i, rich)
    \/ EthSendTransactionStart(i, rich)
    \/ EthSendTransactionCheckedStep(i, rich)
    \/ EthSendTransactionSubmitStep(i)
    \/ EthSendTransactionResume(i, rich)
    \/ GetSendOptions(i, rich)
    \/ Settle(i)

\* Concurrent callers, representative inputs.
Next == NextOver(1..MaxInv, FALSE)
Spec == Init /\ [][Next]_vars

\* One caller, the full input domains.
NextData == NextOver({1}, TRUE)
SpecData == Init /\ [][NextData]_vars

(* ------------------------------ claims --------------------------------- *)
Slots == DOMAIN inv
SubmitKinds == {"signer.sendTransaction", "contract.functions"}
HasReq(s, kinds) == \E k \in 1..Len(s.reqs) : s.reqs[k].kind \in kinds
\* The from the caller passed in its options bag or transaction.
GivenFrom(s) == Get(s.options, "from")
\* from is the controlled account written in a well-formed letter case.
SameAccount(from, account) ==
  from.t = "address" /\ from.n = account.n /\ from.c \in {"lower", "upper", "checksum"}
VerifiesSender(s) == s.op = "ethSendTransaction" \/ (s.op = "send" /\ s.hasOptions)

\* C1: in ethSendTransaction, and in send with options, a submission is
\* requested only after the signer's account was asked for and answered and
\* from matched it; when from does not normalize to the controlled account
\* nothing is ever submitted and the invocation ends in an error.
C1_FailClosed ==
  \A i \in Slots :
    LET s == inv[i] IN
    VerifiesSender(s) =>
      /\ \A k \in 1..Len(s.reqs) :
           s.reqs[k].kind \in SubmitKinds =>
             \E j \in 1..(k - 1) :
               /\ s.reqs[j].kind = "signer.getAddress"
               /\ Len(s.resps) >= j
               /\ s.resps[j].ok
               /\ SameAccount(GivenFrom(s), s.resps[j].acct)
               /\ s.checked = Returned(VVoid)
      /\ ~SameAccount(GivenFrom(s), adapter.signer.account) =>
           /\ ~HasReq(s, SubmitKinds)
           /\ s.pc = "done" => s.result.kind = "throw"

C1_Witness ==
  \E i \in Slots :
    /\ inv[i].op = "send" /\ inv[i].hasOptions /\ inv[i].pc = "done"
    /\ GivenFrom(inv[i]).t = "address"
    /\ GivenFrom(inv[i]).n # adapter.signer.account.n
    /\ inv[i].result.kind = "throw"
    /\ inv[i].result.err.name = "AddressMismatch"
    /\ ~HasReq(inv[i], SubmitKinds)

\* C2 as stated: estimateGas with options verifies from as send does, so it
\* ends in an error, with no estimate requested, whenever from does not
\* normalize to the controlled account.
C2_EstimateVerifiesFrom ==
  \A i \in Slots :
    LET s == inv[i] IN
    (s.op = "estimateGas" /\ s.hasOptions /\ s.pc = "done"
       /\ ~SameAccount(GivenFrom(s), adapter.signer.account)) =>
      (s.result.kind = "throw" /\ ~HasReq(s, {"contract.estimate"}))

\* C2, amended: estimateGas normalizes gas when options are supplied but never
\* calls checkFromAddress: its only request is the one estimate, whose options
\* carry the gas limit as gasLimit and the caller's from, unverified, with
\* every other key; it never ends in an address error and never submits.
C2_EstimatePassesFromThrough ==
  \A i \in Slots :
    LET s == inv[i] IN
    s.op = "estimateGas" =>
      /\ Len(s.reqs) <= 1
      /\ \A k \in 1..Len(s.reqs) : s.reqs[k].kind = "contract.estimate"
      /\ s.result.err.name \notin {"AddressMismatch", "InvalidAddress"}
      /\ (s.hasOptions /\ Len(s.reqs) = 1) =>
           LET o == s.reqs[1].tx IN
           /\ DOMAIN o = ((DOMAIN s.options) \ {"gas"}) \cup {"gasLimit"}
           /\ o["gasLimit"] = (IF "gas" \in DOMAIN s.options THEN s.options["gas"]
                               ELSE Get(s.options, "gasLimit"))
           /\ \A k \in (DOMAIN s.options) \ {"gas", "gasLimit"} : o[k] = s.options[k]

C2_Witness ==
  \E i \in Slots :
    /\ inv[i].op = "estimateGas" /\ inv[i].hasOptions /\ inv[i].pc = "done"
    /\ GivenFrom(inv[i]).t = "address"
    /\ GivenFrom(inv[i]).n # adapter.signer.account.n
    /\ inv[i].result.kind = "return"
    /\ inv[i].reqs[1].tx["from"] = GivenFrom(inv[i])

RevertCall(s) == s.op = "getCallRevertData" /\ s.pc = "done" /\ Len(s.resps) = 1
HexKeysOf(d) == SelectSeq([k \in 1..Len(d.props) |-> d.props[k].key], IsHexKey)
\* The error shapes no branch of the extractor recognizes.
UnknownShape(d) ==
  \/ d.t = "undefined"
  \/ d.t = "string" /\ ~StartsWith(d.s, RevertedPrefix)
  \/ d.t = "object" /\ Len(HexKeysOf(d)) = 0
  \/ d.t = "object" /\ Len(HexKeysOf(d)) > 0
       /\ \A k \in 1..Len(d.props) :
            IsHexKey(d.props[k].key) => ~d.props[k].val.hasReturn

\* C3: when the eth_call fails with an error whose data has none of the known
\* shapes, getCallRevertData ends by raising an error, never by returning.
C3_UnknownShapeRaises ==
  \A i \in Slots :
    LET s == inv[i] IN
    (RevertCall(s) /\ ~s.resps[1].ok /\ UnknownShape(s.resps[1].err.data)) =>
      s.result.kind = "throw"

\* C4: getCallRevertData returns exactly the payload P when the eth_call
\* returns P, when it throws with data "Reverted " followed by P, and when it
\* throws with a mapping whose first key beginning with 0x has return = P.
C4_SamePayloadInEveryBranch ==
  \A i \in Slots :
    LET s == inv[i] IN
    RevertCall(s) =>
      LET r == s.resps[1]
          d == r.err.data
      IN /\ r.ok => s.result = Returned(VStr(r.hex))
         /\ \A p \in Payloads :
              (~r.ok /\ d = DStr(<<"R", "e", "v", "e", "r", "t", "e", "d", " ">> \o p)) =>
                s.result = Returned(VStr(p))
         /\ \A p \in Payloads :
              (~r.ok /\ d.t = "object" /\ Len(HexKeysOf(d)) > 0
                 /\ Lookup(d, HexKeysOf(d)[1]) = PRet(p)) =>
                s.result = Returned(VStr(p))

C4_Witness ==
  \E i \in Slots :
    /\ RevertCall(inv[i]) /\ ~inv[i].resps[1].ok
    /\ inv[i].resps[1].err.data.t = "string"
    /\ Len(inv[i].resps[1].err.data.s) = 9 + 2 + MaxPayloadLen
    /\ inv[i].result.kind = "return"
    /\ Len(inv[i].result.val.hex) = 2 + MaxPayloadLen

\* C5 as stated: once getAccount() has answered, checkFromAddress returns
\* normally for every from that is the controlled account in any letter case,
\* and fails with the address-mismatch error for every other from.
C5_AnyLetterCasePasses ==
  \A i \in Slots :
    LET s == inv[i] IN
    (s.op = "checkFromAddress" /\ s.pc = "done" /\ s.resps[1].ok) =>
      IF s.from.t = "address" /\ s.from.n = adapter.signer.account.n
      THEN s.result = Returned(VVoid)
      ELSE s.result = Thrown(Err("AddressMismatch", DUndef))

\* C5, amended: once getAccount() has answered, checkFromAddress returns
\* normally when from is the controlled account written in lower case, upper
\* case or its checksum case; it fails with the address-mismatch error when
\* from is another account in one of these cases; and it fails with the
\* library's invalid-address error when from is no address or is written in
\* mixed case with a wrong checksum, the controlled account included.
C5_CheckFromAddress ==
  \A i \in Slots :
    LET s == inv[i]
        wellFormed == s.from.t = "address" /\ s.from.c \in {"lower", "upper", "checksum"}
    IN (s.op = "checkFromAddress" /\ s.pc = "done" /\ s.resps[1].ok) =>
         /\ s.resps[1].acct = adapter.signer.account
         /\ (wellFormed /\ s.from.n = adapter.signer.account.n) =>
              s.result = Returned(VVoid)
         /\ (wellFormed /\ s.from.n # adapter.signer.account.n) =>
              s.result = Thrown(Err("AddressMismatch", DUndef))
         /\ ~wellFormed => s.result = Thrown(Err("InvalidAddress", DUndef))

C5_Witness ==
  \E i \in Slots :
    /\ inv[i].op = "checkFromAddress" /\ inv[i].pc = "done"
    /\ inv[i].resps[1].ok
    /\ inv[i].from = Addr(adapter.signer.account.n, "badmix")
    /\ inv[i].result = Thrown(Err("InvalidAddress", DUndef))

\* C6: the bag getSendOptions returns always has the key from, holding the
\* caller's from when options has that key and ownerAccount otherwise; its
\* other keys are exactly those of options, with their values.
C6_GetSendOptions ==
  \A i \in Slots :
    LET s == inv[i] IN
    (s.op = "getSendOptions" /\ s.pc = "done") =>
      LET b == s.result.val.bag IN
      /\ s.result.kind = "return" /\ s.result.val.tag = "bag"
      /\ DOMAIN b = (DOMAIN s.options) \cup {"from"}
      /\ b["from"] = (IF "from" \in DOMAIN s.options THEN s.options["from"] ELSE s.owner)
      /\ \A k \in (DOMAIN s.options) \ {"from"} : b[k] = s.options[k]
      /\ ~s.hasOptions => b = One("from", s.owner)

C6_Witness ==
  \E i \in Slots :
    /\ inv[i].op = "getSendOptions" /\ inv[i].pc = "done"
    /\ "gasLimit" \in DOMAIN inv[i].options
    /\ "from" \in DOMAIN inv[i].options
    /\ inv[i].options["from"].t = "address"
    /\ inv[i].options["from"] # inv[i].owner
    /\ inv[i].result.val.bag["from"] = inv[i].options["from"]

\* C7: call returns the decoded value itself exactly when the method declares
\* one return value, and the whole decoded sequence, in order, otherwise.
C7_CallUnwrapsSingle ==
  \A i \in Slots :
    LET s == inv[i] IN
    (s.op = "call" /\ s.pc = "done" /\ s.result.kind = "return") =>
      LET n == handle.contract.abi[s.method]
          digits == Slice(s.resps[1].hex, 2)
      IN /\ (s.result.val.tag = "bare") <=> (n = 1)
         /\ (s.result.val.tag = "seq") <=> (n # 1)
         /\ s.result.val.vals = SubSeq(digits, 1, n)

C7_Witness ==
  \E i \in Slots :
    /\ inv[i].op = "call" /\ inv[i].pc = "done"
    /\ inv[i].method \in DOMAIN handle.contract.abi
    /\ handle.contract.abi[inv[i].method] = 1
    /\ inv[i].result.kind = "return"
    /\ inv[i].result.val.tag = "bare"

\* What an invocation is given: its operation and arguments, and the
\* responses that have come back to it.
Given(s) ==
  <<s.op, s.method, s.params, s.hasOptions, s.options, s.block, s.owner,
    GivenFrom(s), IF s.op = "checkFromAddress" THEN s.from ELSE JSUndef, s.resps>>
\* Two settled invocations given the same have asked and ended the same.
SameGivenSameOutcome ==
  \A i, j \in Slots :
    (inv[i].pc = "done" /\ inv[j].pc = "done" /\ Given(inv[i]) = Given(inv[j])) =>
      (inv[i].result = inv[j].result /\ inv[i].reqs = inv[j].reqs)

\* C8: under every interleaving, no step changes the adapter's or the handle's
\* bindings, a step of one invocation leaves every other invocation as it
\* was, and an invocation's outcome is a function of its own arguments and of
\* the responses it received.
C8_NoSharedState ==
  [][ /\ adapter' = adapter
      /\ handle' = handle
      /\ \A i, j \in Slots : (i # j /\ inv'[i] # inv[i]) => inv'[j] = inv[j]
      /\ SameGivenSameOutcome' ]_vars

C8_Witness ==
  \E i, j \in Slots :
    /\ i # j
    /\ inv[i].op = "ethSendTransaction" /\ inv[i].pc = "await_check"
    /\ inv[i].checked = Returned(VVoid) /\ Len(inv[i].reqs) = 1
    /\ inv[j].op = "send" /\ inv[j].pc = "await_submit"
    /\ Len(inv[j].resps) = 1 /\ Len(inv[j].reqs) = 2

RequestKinds ==
  {"eth_call", "signer.getAddress", "signer.sendTransaction", "contract.functions",
   "contract.estimate"}
\* C9: an invocation issues each provider or signer request at most once, and
\* in ethCall, call, send, estimateGas and ethSendTransaction a failed request
\* is followed by no further request and the invocation ends with that very
\* error (at once, or on its next run when the failure came to the
\* checkFromAddress it awaits).
C9_NoRetry ==
  \A i \in Slots :
    LET s == inv[i] IN
    /\ \A kind \in RequestKinds :
         Cardinality({k \in 1..Len(s.reqs) : s.reqs[k].kind = kind}) <= 1
    /\ Len(s.resps) <= Len(s.reqs)
    /\ s.op \in {"ethCall", "call", "send", "estimateGas", "ethSendTransaction"} =>
         \A k \in 1..Len(s.resps) :
           ~s.resps[k].ok =>
             /\ Len(s.reqs) = k
             /\ s.pc = "done" => s.result = Thrown(s.resps[k].err)
             /\ s.pc # "done" => (s.pc = "await_check" /\ s.checked = Thrown(s.resps[k].err))

C9_Witness ==
  \E i \in Slots :
    /\ inv[i].op = "ethSendTransaction" /\ inv[i].pc = "done"
    /\ Len(inv[i].reqs) = 2 /\ Len(inv[i].resps) = 2
    /\ ~inv[i].resps[2].ok
    /\ inv[i].result = Thrown(inv[i].resps[2].err)

\* C10: the one request of call is an eth_call at block 'latest' whose
\* transaction, formatted, has to = the handle's address and data =
\* encode(methodName, params), whatever keys the caller's options hold.
C10_CallTarget ==
  \A i \in Slots :
    LET s == inv[i] IN
    (s.op = "call" /\ Len(s.reqs) > 0) =>
      /\ Len(s.reqs) = 1
      /\ s.reqs[1].kind = "eth_call"
      /\ s.reqs[1].block = "latest"
      /\ Get(s.reqs[1].tx, "to") = handle.contract.address
      /\ Get(s.reqs[1].tx, "data") = HexData(10 * s.method + s.params)
      /\ \A k \in DOMAIN s.reqs[1].tx : s.reqs[1].tx[k] # JSUndef
      /\ "gasLimit" \notin DOMAIN s.reqs[1].tx

C10_Witness ==
  \E i \in Slots :
    /\ inv[i].op = "call" /\ inv[i].hasOptions /\ Len(inv[i].reqs) = 1
    /\ "to" \in DOMAIN inv[i].options /\ "data" \in DOMAIN inv[i].options
    /\ inv[i].options["to"] # handle.contract.address
    /\ inv[i].options["data"] # inv[i].reqs[1].tx["data"]
    /\ "gasLimit" \in DOMAIN inv[i].options
====
